---- MODULE Spec2Model ----
(***************************************************************************)
(* Model of the Datadog secrets engine (vault-datadog-plugin).             *)
(*                                                                         *)
(* State: the host's storage view (path -> JSON entry), the backend's      *)
(* cached provider client (b.client), the keys that exist at the provider, *)
(* the leases the host holds, and, per request goroutine, the position in  *)
(* the handler it runs together with the handler's local variables.        *)
(*                                                                         *)
(* Every handler is cut at its accesses to shared state: one step per      *)
(* storage operation, per read or write of b.client and per provider call. *)
(* Spec runs the requests one at a time (the steps of a handler follow one *)
(* another with nothing in between) and writes roles out of RoleExamples;  *)
(* SpecRoles is the configuration and role surface alone, with role fields *)
(* drawn from their whole ranges.                                          *)
(***************************************************************************)
EXTENDS Integers, Sequences, FiniteSets, TLC

(* ------------------------------ bounds --------------------------------- *)
\* number of keys the provider is willing to create in one behaviour
MaxKeys == 2
\* role ttl / max_ttl values range over 0..MaxTTLVal (seconds)
MaxTTLVal == 1
\* request goroutines the host may run
NumProcs == 2

Procs == 1..NumProcs
\* the goroutine that serves the requests when the host sends them in turn
Main == CHOOSE p \in Procs : \A q \in Procs : p <= q

(* ------------------------------ inputs --------------------------------- *)
RoleNames == {"test-role"}
\* the "name" segment of roles/<name> and the "role" segment of keys/<role>;
\* "" is the zero value data.Get returns for a missing string field
RoleNameInputs == RoleNames \cup {""}
KeyTypeInputs == {"api_key", "app_key", "both", "other"}
ScopesInputs == {<<>>, <<"logs_read">>}
TTLInputs == 0..MaxTTLVal
AdminAPIKeys == {"k1", "k3"}
AdminAppKeys == {"k2"}
\* the roles written while keys are issued: the role of the test suite, one
\* role per key type, and two roles the validation turns down
RoleExamples ==
    { [KeyType |-> "both",    Scopes |-> <<"logs_read">>, TTL |-> 3600,  MaxTTL |-> 86400],
      [KeyType |-> "api_key", Scopes |-> <<>>,            TTL |-> 60,    MaxTTL |-> 60],
      [KeyType |-> "app_key", Scopes |-> <<"logs_read">>, TTL |-> 0,     MaxTTL |-> 3600],
      [KeyType |-> "other",   Scopes |-> <<>>,            TTL |-> 60,    MaxTTL |-> 3600],
      [KeyType |-> "both",    Scopes |-> <<>>,            TTL |-> 86400, MaxTTL |-> 3600] }
\* the optional "name" field of keys/<role>: absent (<<>>) or present
KeyNameInputs == {<<>>, <<"">>, <<"test-keys">>}
\* values of time.Now().Unix()
Times == {1}

\* a nil pointer / absent entry is <<>>, a present one is <<v>>
Nil == <<>>
Some(v) == <<v>>
Val(o) == o[1]

(* --------------------------- pure functions ---------------------------- *)
\* time.Second, with durations counted in seconds
Second == 1

\* mutant: the two fields are stored under each other's tag
EncodeConfigSwapped(c) == [api_key |-> c.AppKey, app_key |-> c.APIKey]

\* logical.StorageEntryJSON + entry.DecodeJSON for datadogConfig: the JSON
\* object carries the struct's fields under their json tags
EncodeConfig(c) == [api_key |-> c.APIKey, app_key |-> c.AppKey]
DecodeConfig(j) == [APIKey |-> j.api_key, AppKey |-> j.app_key]

\* the same for datadogRole; scopes is omitempty
EncodeRole(r) ==
    IF Len(r.Scopes) = 0
    THEN [key_type |-> r.KeyType, ttl |-> r.TTL, max_ttl |-> r.MaxTTL]
    ELSE [key_type |-> r.KeyType, scopes |-> r.Scopes,
          ttl |-> r.TTL, max_ttl |-> r.MaxTTL]
DecodeRole(j) ==
    [KeyType |-> j.key_type,
     Scopes  |-> IF "scopes" \in DOMAIN j THEN j.scopes ELSE <<>>,
     TTL     |-> j.ttl,
     MaxTTL  |-> j.max_ttl]

RolePath(name) == "role/" \o name
StoragePaths == {"config"} \cup {RolePath(n) : n \in RoleNames}

\* newDatadogClient: the admin pair is captured at construction
newDatadogClient(apiKey, appKey) == [apiKey |-> apiKey, appKey |-> appKey]

\* mutant: the ttl is not compared with max_ttl
ValidateRoleNoTTL(r) ==
    IF r.KeyType \notin {"api_key", "app_key", "both"}
    THEN "invalid key_type; must be 'api_key', 'app_key', or 'both'"
    ELSE ""

\* the role validation of pathRoleWrite: "" when the role is accepted
ValidKeyType(kt) == kt \in {"api_key", "app_key", "both"}
ValidateRole(r) ==
    IF ~ValidKeyType(r.KeyType)
    THEN "invalid key_type; must be 'api_key', 'app_key', or 'both'"
    ELSE IF r.TTL > r.MaxTTL
    THEN "ttl cannot be greater than max_ttl"
    ELSE ""

\* data.Get("name") of keys/<role>: the schema default when the field is absent
KeyNameField(raw) == IF raw = Nil THEN "vault-generated" ELSE Val(raw)
\* the effective key name of pathKeysRead
EffectiveKeyName(raw, roleName, now) ==
    IF KeyNameField(raw) = ""
    THEN "vault-" \o roleName \o "-" \o ToString(now)
    ELSE KeyNameField(raw)

(* ------------------------------- state --------------------------------- *)
VARIABLES
    storage,    \* req.Storage: path -> Nil | Some(JSON object)
    client,     \* b.client: Nil | Some(datadogClient)
    provider,   \* keys existing at the provider: [kind, value]
    nextId,     \* next key value the provider hands out
    leases,     \* leases held by the host: [secret, created]
    pc,         \* per goroutine: position in its handler
    frame,      \* per goroutine: the handler's local variables
    calls,      \* per goroutine: provider calls made by the current handler
    result,     \* per goroutine: what the handler returned
    wire        \* the last HTTP exchange of a datadogClient method, looked at
                \* on its own: the handlers above see its outcome only

vars == <<storage, client, provider, nextId, leases, pc, frame, calls, result, wire>>

\* (*logical.Response, error) as returned by a handler
NoResult == [kind |-> "none", msg |-> "", data |-> Nil, secret |-> Nil]
\* return nil, nil
RetNil == [kind |-> "nil", msg |-> "", data |-> Nil, secret |-> Nil]
\* return logical.ErrorResponse(msg), nil
RetErrorResponse(m) == [kind |-> "error_response", msg |-> m, data |-> Nil, secret |-> Nil]
\* return nil, err
RetErr(m) == [kind |-> "error", msg |-> m, data |-> Nil, secret |-> Nil]
\* return &logical.Response{Data: d}, nil
RetData(d) == [kind |-> "data", msg |-> "", data |-> Some(d), secret |-> Nil]
\* return &logical.Response{Data: d, Secret: s}, nil
RetSecret(d, s) == [kind |-> "data", msg |-> "", data |-> Some(d), secret |-> Some(s)]

\* no exchange has been looked at
NoExchange == [op |-> "", response |-> Nil, body |-> "", failed |-> FALSE, value |-> ""]

EmptyFrame ==
    [op |-> "", name |-> "", rawName |-> Nil, role |-> Nil, config |-> Nil,
     keyName |-> "", apiKey |-> "", appKey |-> "", created |-> {}, secret |-> Nil]

Init ==
    /\ storage = [p \in StoragePaths |-> Nil]
    /\ client = Nil
    /\ provider = {}
    /\ nextId = 1
    /\ leases = {}
    /\ pc = [p \in Procs |-> "idle"]
    /\ frame = [p \in Procs |-> EmptyFrame]
    /\ calls = [p \in Procs |-> <<>>]
    /\ result = [p \in Procs |-> NoResult]
    /\ wire = NoExchange

\* the goroutine is free to take the next request
Free(p) == pc[p] = "idle"

\* the handler returns r
Return(p, r) ==
    /\ pc' = [pc EXCEPT ![p] = "done"]
    /\ result' = [result EXCEPT ![p] = r]
    /\ wire' = wire

\* a handler begins: fresh locals, no calls made, nothing returned
Begin(p, f) ==
    /\ frame' = [frame EXCEPT ![p] = f]
    /\ calls' = [calls EXCEPT ![p] = <<>>]

Goto(p, label) ==
    /\ pc' = [pc EXCEPT ![p] = label]
    /\ result' = [result EXCEPT ![p] = NoResult]
    /\ wire' = wire

(* ---------------------------- config.go -------------------------------- *)
\* what pathConfigRead returns; ok = the storage Get succeeded
ConfigReadResponse(ok) ==
    IF ~ok THEN RetErr("storage")
    ELSE IF storage["config"] = Nil THEN RetNil
    ELSE LET config == DecodeConfig(Val(storage["config"]))
         IN RetData([api_key |-> config.APIKey, app_key |-> config.AppKey])

\* pathConfigRead: one storage Get
pathConfigRead(p, ok) ==
    /\ Free(p)
    /\ Begin(p, [EmptyFrame EXCEPT !.op = "config_read"])
    /\ Return(p, ConfigReadResponse(ok))
    /\ UNCHANGED <<storage, client, provider, nextId, leases>>

\* pathConfigWrite up to and including req.Storage.Put
pathConfigWritePut(p, apiKey, appKey, ok) ==
    LET config == [APIKey |-> apiKey, AppKey |-> appKey] IN
    /\ Free(p)
    /\ Begin(p, [EmptyFrame EXCEPT !.op = "config_write", !.config = Some(config)])
    /\ IF ok
       THEN /\ storage' = [storage EXCEPT !["config"] = Some(EncodeConfig(config))]
            /\ Goto(p, "config_write_client")
       ELSE /\ storage' = storage
            /\ Return(p, RetErr("storage"))
    /\ UNCHANGED <<client, provider, nextId, leases>>

\* pathConfigWrite: b.client = newDatadogClient(...); return nil, nil
pathConfigWriteClient(p) ==
    /\ pc[p] = "config_write_client"
    /\ client' = Some(newDatadogClient(Val(frame[p].config).APIKey,
                                       Val(frame[p].config).AppKey))
    /\ Return(p, RetNil)
    /\ UNCHANGED <<storage, provider, nextId, leases, frame, calls>>

\* pathConfigDelete up to and including req.Storage.Delete
pathConfigDeleteStorage(p, ok) ==
    /\ Free(p)
    /\ Begin(p, [EmptyFrame EXCEPT !.op = "config_delete"])
    /\ IF ok
       THEN /\ storage' = [storage EXCEPT !["config"] = Nil]
            /\ Goto(p, "config_delete_client")
       ELSE /\ storage' = storage
            /\ Return(p, RetErr("storage"))
    /\ UNCHANGED <<client, provider, nextId, leases>>

\* mutant: the cached client survives the delete
pathConfigDeleteKeepsClient(p) ==
    /\ pc[p] = "config_delete_client"
    /\ client' = client
    /\ Return(p, RetNil)
    /\ UNCHANGED <<storage, provider, nextId, leases, frame, calls>>

\* pathConfigDelete: b.client = nil; return nil, nil
pathConfigDeleteClient(p) ==
    /\ pc[p] = "config_delete_client"
    /\ client' = Nil
    /\ Return(p, RetNil)
    /\ UNCHANGED <<storage, provider, nextId, leases, frame, calls>>

(* ------------------------------ roles ---------------------------------- *)
\* getRole: the stored role, decoded
getRole(name) ==
    IF storage[RolePath(name)] = Nil THEN Nil
    ELSE Some(DecodeRole(Val(storage[RolePath(name)])))

\* pathRoleRead
pathRoleRead(p, name, ok) ==
    /\ Free(p)
    /\ Begin(p, [EmptyFrame EXCEPT !.op = "role_read", !.name = name])
    /\ Return(p, IF name = "" THEN RetErrorResponse("missing role name")
                 ELSE IF ~ok THEN RetErr("storage")
                 ELSE IF getRole(name) = Nil THEN RetNil
                 ELSE LET role == Val(getRole(name))
                      IN RetData([key_type |-> role.KeyType, scopes |-> role.Scopes,
                                  ttl |-> role.TTL, max_ttl |-> role.MaxTTL]))
    /\ UNCHANGED <<storage, client, provider, nextId, leases>>

\* mutant: the role is stored before its ttl is validated
pathRoleWriteStoresFirst(p, name, keyType, scopes, ttl, maxTTL, ok) ==
    LET role == [KeyType |-> keyType, Scopes |-> scopes, TTL |-> ttl, MaxTTL |-> maxTTL] IN
    /\ Free(p)
    /\ Begin(p, [EmptyFrame EXCEPT !.op = "role_write", !.name = name])
    /\ IF name = ""
       THEN /\ Return(p, RetErrorResponse("missing role name"))
            /\ storage' = storage
       ELSE IF ~ValidKeyType(keyType)
       THEN /\ Return(p, RetErrorResponse(ValidateRole(role)))
            /\ storage' = storage
       ELSE IF ~ok
       THEN /\ Return(p, RetErr("storage"))
            /\ storage' = storage
       ELSE /\ storage' = [storage EXCEPT ![RolePath(name)] = Some(EncodeRole(role))]
            /\ Return(p, IF ValidateRole(role) # ""
                         THEN RetErrorResponse(ValidateRole(role)) ELSE RetNil)
    /\ UNCHANGED <<client, provider, nextId, leases>>

\* pathRoleWrite: validation, then one storage Put
pathRoleWrite(p, name, keyType, scopes, ttl, maxTTL, ok) ==
    LET role == [KeyType |-> keyType, Scopes |-> scopes, TTL |-> ttl, MaxTTL |-> maxTTL] IN
    /\ Free(p)
    /\ Begin(p, [EmptyFrame EXCEPT !.op = "role_write", !.name = name])
    /\ IF name = ""
       THEN /\ Return(p, RetErrorResponse("missing role name"))
            /\ storage' = storage
       ELSE IF ValidateRole(role) # ""
       THEN /\ Return(p, RetErrorResponse(ValidateRole(role)))
            /\ storage' = storage
       ELSE IF ~ok
       THEN /\ Return(p, RetErr("storage"))
            /\ storage' = storage
       ELSE /\ storage' = [storage EXCEPT ![RolePath(name)] = Some(EncodeRole(role))]
            /\ Return(p, RetNil)
    /\ UNCHANGED <<client, provider, nextId, leases>>

\* pathRoleDelete
pathRoleDelete(p, name, ok) ==
    /\ Free(p)
    /\ Begin(p, [EmptyFrame EXCEPT !.op = "role_delete", !.name = name])
    /\ IF name = ""
       THEN /\ Return(p, RetErrorResponse("missing role name"))
            /\ storage' = storage
       ELSE IF ~ok
       THEN /\ Return(p, RetErr("storage"))
            /\ storage' = storage
       ELSE /\ storage' = [storage EXCEPT ![RolePath(name)] = Nil]
            /\ Return(p, RetNil)
    /\ UNCHANGED <<client, provider, nextId, leases>>

\* pathRoleList: the names under "role/"
pathRoleList(p, ok) ==
    /\ Free(p)
    /\ Begin(p, [EmptyFrame EXCEPT !.op = "role_list"])
    /\ Return(p, IF ~ok THEN RetErr("storage")
                 ELSE RetData([keys |-> {n \in RoleNames : storage[RolePath(n)] # Nil}]))
    /\ UNCHANGED <<storage, client, provider, nextId, leases>>

(* ------------------------------ client.go ------------------------------ *)
\* what the provider and the decoding of its response make of a create call:
\*   created     2xx, the body carries the new key: (value, nil)
\*   no_value    2xx, the body lacks the key field: ("", nil)
\*   undecodable the key is created, the body does not decode: ("", err)
\*   rejected    status >= 400 or transport failure, nothing created: ("", err)
CreateOutcomes == {"created", "no_value", "undecodable", "rejected"}
\* the provider created a key in this outcome
Creates(outcome) == outcome \in {"created", "no_value", "undecodable"}
\* the outcomes the provider can produce now (it creates at most MaxKeys keys)
CreateOutcomesNow == IF nextId <= MaxKeys THEN CreateOutcomes ELSE {"rejected"}
\* the (string, error) pair of createAPIKey / createAppKey
CreateValue(outcome) == IF outcome = "created" THEN ToString(nextId) ELSE ""
CreateOk(outcome) == outcome \in {"created", "no_value"}

\* the provider after POST /api_key or POST /application_key
ProviderAfterCreate(kind, outcome) ==
    IF Creates(outcome)
    THEN provider \cup {[kind |-> kind, value |-> ToString(nextId)]}
    ELSE provider

\* the provider after DELETE /api_key/<value> or /application_key/<value>:
\*   deleted     2xx, the key is gone (or was gone already): nil
\*   redirected  a final 3xx answer, nothing deleted: nil (doRequest lets
\*               every status below 400 through)
\*   rejected    status >= 400 or transport failure, nothing deleted: err
DeleteOutcomes == {"deleted", "redirected", "rejected"}
\* the error of deleteAPIKey / deleteAppKey is nil
DeleteOk(outcome) == outcome \in {"deleted", "redirected"}
ProviderAfterDelete(kind, value, outcome) ==
    IF outcome = "deleted"
    THEN provider \ {[kind |-> kind, value |-> value]}
    ELSE provider

\* one provider call as seen at the provider: the operation, its arguments,
\* the admin pair in the request headers and what came back
Call(opName, arg, scopes, via, ok, value) ==
    [op |-> opName, arg |-> arg, scopes |-> scopes, via |-> via,
     ok |-> ok, value |-> value]

\* -- the datadogClient methods over one HTTP exchange --
\* the final answer of c.client.Do: Nil for a transport failure (err != nil),
\* else the status code of the response
Statuses == {200, 201, 204, 299, 300, 301, 304, 307, 399,
             400, 401, 403, 404, 429, 500, 503, 599}
Responses == {Nil} \cup {Some(st) : st \in Statuses}
\* the response body as the create methods decode it: the key field is
\* present, the JSON has no such field, the body is not JSON
Bodies == {"key", "no_field", "not_json"}
ClientOps == {"createAPIKey", "createAppKey", "deleteAPIKey", "deleteAppKey"}

\* doRequest returns a non-nil error
doRequest(response) ==
    IF response = Nil THEN TRUE
    ELSE Val(response) >= 400

\* json.NewDecoder(resp.Body).Decode(&result) returns an error
DecodeFails(body) == body = "not_json"

\* the method returns a non-nil error
MethodFails(opName, response, body) ==
    IF doRequest(response) THEN TRUE
    ELSE IF opName \in {"createAPIKey", "createAppKey"}
    THEN DecodeFails(body)
    ELSE FALSE

\* the string a create method returns
MethodValue(opName, response, body) ==
    IF opName \in {"createAPIKey", "createAppKey"}
       /\ ~MethodFails(opName, response, body) /\ body = "key"
    THEN "key" ELSE ""

\* one method of datadogClient runs against one answer of the provider
Exchange(opName, response, body) ==
    /\ wire' = [op |-> opName, response |-> response, body |-> body,
                failed |-> MethodFails(opName, response, body),
                value |-> MethodValue(opName, response, body)]
    /\ UNCHANGED <<storage, client, provider, nextId, leases, pc, frame, calls, result>>

NextClient == \E o \in ClientOps, r \in Responses, b \in Bodies : Exchange(o, r, b)

SpecClient == Init /\ [][NextClient]_vars

(* -------------------------- pathKeysRead ------------------------------- *)
\* mutant: every valid key type asks for both kinds
KeyKindsAlwaysBoth(keyType) ==
    IF keyType \in {"api_key", "app_key", "both"} THEN {"api_key", "app_key"} ELSE {}

KeyKinds(keyType) ==
    (IF keyType \in {"api_key", "both"} THEN {"api_key"} ELSE {})
    \cup (IF keyType \in {"app_key", "both"} THEN {"app_key"} ELSE {})


\* mutant: the lease ttl is taken from max_ttl
KeysSecretMaxForTTL(role, apiKey, appKey) ==
    [InternalData |-> [api_key |-> apiKey, app_key |-> appKey,
                       key_type |-> role.KeyType],
     TTL |-> role.MaxTTL * Second,
     MaxTTL |-> role.MaxTTL * Second,
     Renewable |-> TRUE]

\* the response and secret pathKeysRead builds from its locals
KeysResponseData(role, apiKey, appKey) ==
    [k \in KeyKinds(role.KeyType) |-> IF k = "api_key" THEN apiKey ELSE appKey]
KeysSecret(role, apiKey, appKey) ==
    [InternalData |-> [api_key |-> apiKey, app_key |-> appKey,
                       key_type |-> role.KeyType],
     TTL |-> role.TTL * Second,
     MaxTTL |-> role.MaxTTL * Second,
     Renewable |-> TRUE]

\* mutant: the response is built from the role as stored at the return
KeysReturnStoredRole(p, f) ==
    LET role == Val(getRole(f.name))
        secret == KeysSecret(role, f.apiKey, f.appKey)
    IN /\ Return(p, RetSecret(KeysResponseData(role, f.apiKey, f.appKey), secret))
       /\ leases' = leases \cup {[secret |-> secret, created |-> f.created]}

\* pathKeysRead returns the response; the host keeps the lease
KeysReturn(p, f) ==
    LET role == Val(f.role)
        secret == KeysSecret(role, f.apiKey, f.appKey)
    IN /\ Return(p, RetSecret(KeysResponseData(role, f.apiKey, f.appKey), secret))
       /\ leases' = leases \cup {[secret |-> secret, created |-> f.created]}

\* mutant: the application key is created first
KeysAfterClientAppFirst(p, f) ==
    LET kinds == KeyKinds(Val(f.role).KeyType) IN
    IF kinds = {}
    THEN KeysReturn(p, f)
    ELSE /\ Goto(p, IF "app_key" \in kinds THEN "keys_app" ELSE "keys_api")
         /\ leases' = leases

\* pathKeysRead once b.client is known to be set: on to the first create
\* call the role asks for (a role that asks for none returns at once)
KeysAfterClient(p, f) ==
    LET kinds == KeyKinds(Val(f.role).KeyType) IN
    IF kinds = {}
    THEN KeysReturn(p, f)
    ELSE /\ Goto(p, IF "api_key" \in kinds THEN "keys_api" ELSE "keys_app")
         /\ leases' = leases

\* pathKeysRead up to and including getRole
pathKeysReadRole(p, roleName, rawName, ok) ==
    /\ Free(p)
    /\ calls' = [calls EXCEPT ![p] = <<>>]
    /\ IF roleName = ""
       THEN /\ frame' = [frame EXCEPT ![p] = [EmptyFrame EXCEPT !.op = "keys_read"]]
            /\ Return(p, RetErrorResponse("missing role name"))
       ELSE IF ~ok
       THEN /\ frame' = [frame EXCEPT ![p] =
                    [EmptyFrame EXCEPT !.op = "keys_read", !.name = roleName]]
            /\ Return(p, RetErr("storage"))
       ELSE IF getRole(roleName) = Nil
       THEN /\ frame' = [frame EXCEPT ![p] =
                    [EmptyFrame EXCEPT !.op = "keys_read", !.name = roleName]]
            /\ Return(p, RetErrorResponse("role '" \o roleName \o "' not found"))
       ELSE /\ frame' = [frame EXCEPT ![p] =
                    [EmptyFrame EXCEPT !.op = "keys_read", !.name = roleName,
                                       !.rawName = rawName, !.role = getRole(roleName)]]
            /\ Goto(p, "keys_client")
    /\ UNCHANGED <<storage, client, provider, nextId, leases>>

\* pathKeysRead: if b.client == nil; when it is set, the key name is fixed
pathKeysReadClient(p, now) ==
    /\ pc[p] = "keys_client"
    /\ IF client = Nil
       THEN /\ Goto(p, "keys_config")
            /\ frame' = frame
            /\ leases' = leases
       ELSE LET f == [frame[p] EXCEPT !.keyName =
                        EffectiveKeyName(frame[p].rawName, frame[p].name, now)]
            IN /\ frame' = [frame EXCEPT ![p] = f]
               /\ KeysAfterClient(p, f)
    /\ UNCHANGED <<storage, client, provider, nextId, calls>>

\* pathKeysRead: b.getConfig
pathKeysReadConfig(p, ok) ==
    /\ pc[p] = "keys_config"
    /\ IF ~ok
       THEN /\ Return(p, RetErr("storage"))
            /\ frame' = frame
       ELSE IF storage["config"] = Nil
       THEN /\ Return(p, RetErrorResponse("datadog backend not configured"))
            /\ frame' = frame
       ELSE /\ Goto(p, "keys_set_client")
            /\ frame' = [frame EXCEPT ![p].config =
                            Some(DecodeConfig(Val(storage["config"])))]
    /\ UNCHANGED <<storage, client, provider, nextId, leases, calls>>

\* pathKeysRead: b.client = newDatadogClient(config.APIKey, config.AppKey)
pathKeysReadSetClient(p, now) ==
    /\ pc[p] = "keys_set_client"
    /\ client' = Some(newDatadogClient(Val(frame[p].config).APIKey,
                                       Val(frame[p].config).AppKey))
    /\ LET f == [frame[p] EXCEPT !.keyName =
                    EffectiveKeyName(frame[p].rawName, frame[p].name, now)]
       IN /\ frame' = [frame EXCEPT ![p] = f]
          /\ KeysAfterClient(p, f)
    /\ UNCHANGED <<storage, provider, nextId, calls>>

\* mutant: a failed createAPIKey does not stop the issuance
pathKeysReadAPIGoesOn(p, outcome) ==
    /\ pc[p] = "keys_api"
    /\ IF client = Nil
       THEN \* a method call on a nil interface value
            /\ Return(p, RetErr("panic"))
            /\ UNCHANGED <<provider, nextId, leases, frame, calls>>
       ELSE LET role == Val(frame[p].role)
                f == [frame[p] EXCEPT
                        !.apiKey = CreateValue(outcome),
                        !.created = IF Creates(outcome)
                                    THEN @ \cup {[kind |-> "api_key", value |-> ToString(nextId)]}
                                    ELSE @]
            IN /\ outcome \in CreateOutcomesNow
               /\ provider' = ProviderAfterCreate("api_key", outcome)
               /\ nextId' = IF Creates(outcome) THEN nextId + 1 ELSE nextId
               /\ calls' = [calls EXCEPT ![p] = Append(@,
                     Call("createAPIKey", frame[p].keyName, <<>>, Val(client),
                          CreateOk(outcome), CreateValue(outcome)))]
               /\ frame' = [frame EXCEPT ![p] = f]
               /\ IF "app_key" \in KeyKinds(role.KeyType)
                  THEN /\ Goto(p, "keys_app")
                       /\ leases' = leases
                  ELSE KeysReturn(p, f)
    /\ UNCHANGED <<storage, client>>

\* pathKeysRead: b.client.createAPIKey(keyName) and what follows it
pathKeysReadAPI(p, outcome) ==
    /\ pc[p] = "keys_api"
    /\ IF client = Nil
       THEN \* a method call on a nil interface value
            /\ Return(p, RetErr("panic"))
            /\ UNCHANGED <<provider, nextId, leases, frame, calls>>
       ELSE LET role == Val(frame[p].role)
                f == [frame[p] EXCEPT
                        !.apiKey = CreateValue(outcome),
                        !.created = IF Creates(outcome)
                                    THEN @ \cup {[kind |-> "api_key", value |-> ToString(nextId)]}
                                    ELSE @]
            IN /\ outcome \in CreateOutcomesNow
               /\ provider' = ProviderAfterCreate("api_key", outcome)
               /\ nextId' = IF Creates(outcome) THEN nextId + 1 ELSE nextId
               /\ calls' = [calls EXCEPT ![p] = Append(@,
                     Call("createAPIKey", frame[p].keyName, <<>>, Val(client),
                          CreateOk(outcome), CreateValue(outcome)))]
               /\ frame' = [frame EXCEPT ![p] = f]
               /\ IF ~CreateOk(outcome)
                  THEN /\ Return(p, RetErr("error creating API key"))
                       /\ leases' = leases
                  ELSE IF "app_key" \in KeyKinds(role.KeyType)
                  THEN /\ Goto(p, "keys_app")
                       /\ leases' = leases
                  ELSE KeysReturn(p, f)
    /\ UNCHANGED <<storage, client>>

\* pathKeysRead: b.client.createAppKey(keyName, role.Scopes) and what follows it
pathKeysReadApp(p, outcome) ==
    /\ pc[p] = "keys_app"
    /\ IF client = Nil
       THEN /\ Return(p, RetErr("panic"))
            /\ UNCHANGED <<provider, nextId, leases, frame, calls>>
       ELSE LET role == Val(frame[p].role)
                f == [frame[p] EXCEPT
                        !.appKey = CreateValue(outcome),
                        !.created = IF Creates(outcome)
                                    THEN @ \cup {[kind |-> "app_key", value |-> ToString(nextId)]}
                                    ELSE @]
            IN /\ outcome \in CreateOutcomesNow
               /\ provider' = ProviderAfterCreate("app_key", outcome)
               /\ nextId' = IF Creates(outcome) THEN nextId + 1 ELSE nextId
               /\ calls' = [calls EXCEPT ![p] = Append(@,
                     Call("createAppKey", frame[p].keyName, role.Scopes, Val(client),
                          CreateOk(outcome), CreateValue(outcome)))]
               /\ frame' = [frame EXCEPT ![p] = f]
               /\ IF ~CreateOk(outcome)
                  THEN /\ Return(p, RetErr("error creating Application key"))
                       /\ leases' = leases
                  ELSE KeysReturn(p, f)
    /\ UNCHANGED <<storage, client>>

(* ------------------------- secretKeysRevoke ---------------------------- *)
\* mutant: the kinds to delete are taken from the role as stored now
RevokeTodoByRole(data, doneKinds) ==
    LET stored == getRole(CHOOSE n \in RoleNames : TRUE)
        keyType == IF stored = Nil THEN data.key_type ELSE Val(stored).KeyType
    IN SelectSeq(<<"api_key", "app_key">>,
                 LAMBDA k : /\ k \in KeyKinds(keyType)
                            /\ k \notin doneKinds
                            /\ data[k] # "")

\* the deletions secretKeysRevoke still has to make, in order, given the
\* secret's internal data and the kinds already dealt with
RevokeTodo(data, doneKinds) ==
    SelectSeq(<<"api_key", "app_key">>,
              LAMBDA k : /\ k \in KeyKinds(data.key_type)
                         /\ k \notin doneKinds
                         /\ data[k] # "")
RevokeLabel(kind) == IF kind = "api_key" THEN "revoke_api" ELSE "revoke_app"

\* secretKeysRevoke returns nil, nil; the host drops the lease
RevokeReturn(p) ==
    /\ Return(p, RetNil)
    /\ leases' = leases \ {Val(frame[p].secret)}

\* after the client is known to be set: the first deletion, or the return
RevokeAfterClient(p, lease) ==
    LET todo == RevokeTodo(lease.secret.InternalData, {}) IN
    IF todo = <<>>
    THEN /\ Return(p, RetNil)
         /\ leases' = leases \ {lease}
    ELSE /\ Goto(p, RevokeLabel(Head(todo)))
         /\ leases' = leases

\* secretKeysRevoke: if b.client == nil
secretKeysRevokeClient(p, lease) ==
    /\ Free(p)
    /\ lease \in leases
    /\ calls' = [calls EXCEPT ![p] = <<>>]
    /\ frame' = [frame EXCEPT ![p] =
                    [EmptyFrame EXCEPT !.op = "revoke", !.secret = Some(lease)]]
    /\ IF client = Nil
       THEN /\ Goto(p, "revoke_config")
            /\ leases' = leases
       ELSE RevokeAfterClient(p, lease)
    /\ UNCHANGED <<storage, client, provider, nextId>>

\* secretKeysRevoke: b.getConfig
secretKeysRevokeConfig(p, ok) ==
    /\ pc[p] = "revoke_config"
    /\ IF ~ok
       THEN /\ Return(p, RetErr("storage"))
            /\ frame' = frame
       ELSE IF storage["config"] = Nil
       THEN /\ Return(p, RetErrorResponse("datadog backend not configured"))
            /\ frame' = frame
       ELSE /\ Goto(p, "revoke_set_client")
            /\ frame' = [frame EXCEPT ![p].config =
                            Some(DecodeConfig(Val(storage["config"])))]
    /\ UNCHANGED <<storage, client, provider, nextId, leases, calls>>

\* secretKeysRevoke: b.client = newDatadogClient(config.APIKey, config.AppKey)
secretKeysRevokeSetClient(p) ==
    /\ pc[p] = "revoke_set_client"
    /\ client' = Some(newDatadogClient(Val(frame[p].config).APIKey,
                                       Val(frame[p].config).AppKey))
    /\ RevokeAfterClient(p, Val(frame[p].secret))
    /\ UNCHANGED <<storage, provider, nextId, frame, calls>>

\* mutant: a failed deletion does not stop the revoke
secretKeysRevokeDeleteGoesOn(p, kind, outcome) ==
    LET data == Val(frame[p].secret).secret.InternalData
        opName == IF kind = "api_key" THEN "deleteAPIKey" ELSE "deleteAppKey"
        doneKinds == IF kind = "api_key" THEN {"api_key"} ELSE {"api_key", "app_key"}
        todo == RevokeTodo(data, doneKinds)
    IN
    /\ pc[p] = RevokeLabel(kind)
    /\ IF client = Nil
       THEN /\ Return(p, RetErr("panic"))
            /\ UNCHANGED <<provider, leases, calls>>
       ELSE /\ provider' = ProviderAfterDelete(kind, data[kind], outcome)
            /\ calls' = [calls EXCEPT ![p] = Append(@,
                  Call(opName, data[kind], <<>>, Val(client), DeleteOk(outcome), ""))]
            /\ IF todo # <<>>
               THEN /\ Goto(p, RevokeLabel(Head(todo)))
                    /\ leases' = leases
               ELSE RevokeReturn(p)
    /\ UNCHANGED <<storage, client, nextId, frame>>

\* secretKeysRevoke: b.client.deleteAPIKey / deleteAppKey and what follows it
secretKeysRevokeDelete(p, kind, outcome) ==
    LET data == Val(frame[p].secret).secret.InternalData
        opName == IF kind = "api_key" THEN "deleteAPIKey" ELSE "deleteAppKey"
        doneKinds == IF kind = "api_key" THEN {"api_key"} ELSE {"api_key", "app_key"}
        todo == RevokeTodo(data, doneKinds)
    IN
    /\ pc[p] = RevokeLabel(kind)
    /\ IF client = Nil
       THEN /\ Return(p, RetErr("panic"))
            /\ UNCHANGED <<provider, leases, calls>>
       ELSE /\ provider' = ProviderAfterDelete(kind, data[kind], outcome)
            /\ calls' = [calls EXCEPT ![p] = Append(@,
                  Call(opName, data[kind], <<>>, Val(client), DeleteOk(outcome), ""))]
            /\ IF ~DeleteOk(outcome)
               THEN /\ Return(p, RetErr(IF kind = "api_key"
                                        THEN "error revoking API key"
                                        ELSE "error revoking Application key"))
                    /\ leases' = leases
               ELSE IF todo # <<>>
               THEN /\ Goto(p, RevokeLabel(Head(todo)))
                    /\ leases' = leases
               ELSE RevokeReturn(p)
    /\ UNCHANGED <<storage, client, nextId, frame>>

(* ----------------------------- datadogKeys ----------------------------- *)
\* mutant: a renewal asks the provider for a new API key
datadogKeysRenewMints(p, lease) ==
    /\ Free(p)
    /\ lease \in leases
    /\ client # Nil
    /\ nextId <= MaxKeys
    /\ frame' = [frame EXCEPT ![p] =
                    [EmptyFrame EXCEPT !.op = "renew", !.secret = Some(lease)]]
    /\ calls' = [calls EXCEPT ![p] =
          <<Call("createAPIKey", "", <<>>, Val(client), TRUE, ToString(nextId))>>]
    /\ provider' = ProviderAfterCreate("api_key", "created")
    /\ nextId' = nextId + 1
    /\ Return(p, RetNil)
    /\ UNCHANGED <<storage, client, leases>>

\* a renew request for a lease: the secret type has a Revoke callback and no
\* Renew callback, so the framework answers "unsupported operation" without
\* entering the backend's code
datadogKeysRenew(p, lease) ==
    /\ Free(p)
    /\ lease \in leases
    /\ Begin(p, [EmptyFrame EXCEPT !.op = "renew", !.secret = Some(lease)])
    /\ Return(p, RetErr("unsupported operation"))
    /\ UNCHANGED <<storage, client, provider, nextId, leases>>

(* ------------------------------ main.go -------------------------------- *)
\* the framework hands the handler's return to the host; the goroutine ends
RequestEnd(p) ==
    /\ pc[p] = "done"
    /\ pc' = [pc EXCEPT ![p] = "idle"]
    /\ frame' = [frame EXCEPT ![p] = EmptyFrame]
    /\ calls' = [calls EXCEPT ![p] = <<>>]
    /\ result' = [result EXCEPT ![p] = NoResult]
    /\ UNCHANGED <<storage, client, provider, nextId, leases, wire>>

\* Factory: the host builds a new backend (client is nil); no request is running
Factory ==
    /\ \A p \in Procs : Free(p)
    /\ client # Nil
    /\ client' = Nil
    /\ UNCHANGED <<storage, provider, nextId, leases, pc, frame, calls, result, wire>>

(* ---------------------------- specification ---------------------------- *)
\* the configuration surface
ConfigHandler(p) ==
    \/ \E ok \in BOOLEAN : pathConfigRead(p, ok)
    \/ \E a \in AdminAPIKeys, b \in AdminAppKeys, ok \in BOOLEAN :
          pathConfigWritePut(p, a, b, ok)
    \/ pathConfigWriteClient(p)
    \/ \E ok \in BOOLEAN : pathConfigDeleteStorage(p, ok)
    \/ pathConfigDeleteClient(p)

\* the role surface but for the write
RoleHandler(p) ==
    \/ \E n \in RoleNameInputs, ok \in BOOLEAN : pathRoleRead(p, n, ok)
    \/ \E n \in RoleNameInputs, ok \in BOOLEAN : pathRoleDelete(p, n, ok)
    \/ \E ok \in BOOLEAN : pathRoleList(p, ok)

\* a role write with every field drawn from its range
RoleWriteAny(p) ==
    \E n \in RoleNameInputs, kt \in KeyTypeInputs, sc \in ScopesInputs,
       ttl \in TTLInputs, mx \in TTLInputs, ok \in BOOLEAN :
       pathRoleWrite(p, n, kt, sc, ttl, mx, ok)

\* a role write of one of RoleExamples
RoleWriteExample(p) ==
    \E n \in RoleNameInputs, r \in RoleExamples, ok \in BOOLEAN :
       pathRoleWrite(p, n, r.KeyType, r.Scopes, r.TTL, r.MaxTTL, ok)

\* issuance
KeysHandler(p) ==
    \/ \E n \in RoleNameInputs, raw \in KeyNameInputs, ok \in BOOLEAN :
          pathKeysReadRole(p, n, raw, ok)
    \/ \E now \in Times : pathKeysReadClient(p, now)
    \/ \E ok \in BOOLEAN : pathKeysReadConfig(p, ok)
    \/ \E now \in Times : pathKeysReadSetClient(p, now)
    \/ \E o \in CreateOutcomes : pathKeysReadAPI(p, o)
    \/ \E o \in CreateOutcomes : pathKeysReadApp(p, o)

\* revocation
RevokeHandler(p) ==
    \/ \E l \in leases : secretKeysRevokeClient(p, l)
    \/ \E ok \in BOOLEAN : secretKeysRevokeConfig(p, ok)
    \/ secretKeysRevokeSetClient(p)
    \/ \E k \in {"api_key", "app_key"}, o \in DeleteOutcomes :
          secretKeysRevokeDelete(p, k, o)

\* renewal
RenewHandler(p) == \E l \in leases : datadogKeysRenew(p, l)

Next ==
    \/ ConfigHandler(Main)
    \/ RoleHandler(Main)
    \/ RoleWriteExample(Main)
    \/ KeysHandler(Main)
    \/ RevokeHandler(Main)
    \/ RenewHandler(Main)
    \/ RequestEnd(Main)
    \/ Factory

Spec == Init /\ [][Next]_vars

NextRoles ==
    \/ ConfigHandler(Main)
    \/ RoleHandler(Main)
    \/ RoleWriteAny(Main)
    \/ RequestEnd(Main)
    \/ Factory

SpecRoles == Init /\ [][NextRoles]_vars

(* ----------------------- concurrent requests -------------------------- *)
\* The host runs requests on several goroutines at once; the handlers
\* interleave at every access to shared state (b.client is read and written
\* without a lock).  The concurrent specifications let storage answer, write
\* valid roles only, and pass one key name.
ConcKeyName == Some("test-keys")
ConcAdminAPIKey == CHOOSE a \in AdminAPIKeys : TRUE

\* pathKeysRead; a new issuance begins only while the host holds no lease,
\* which bounds the number of leases a run accumulates
KeysConc(p) ==
    \/ \E n \in RoleNames : leases = {} /\ pathKeysReadRole(p, n, ConcKeyName, TRUE)
    \/ \E now \in Times : pathKeysReadClient(p, now)
    \/ pathKeysReadConfig(p, TRUE)
    \/ \E now \in Times : pathKeysReadSetClient(p, now)
    \/ \E o \in CreateOutcomes : pathKeysReadAPI(p, o)
    \/ \E o \in CreateOutcomes : pathKeysReadApp(p, o)

\* secretKeysRevoke
RevokeConc(p) ==
    \/ \E l \in leases : secretKeysRevokeClient(p, l)
    \/ secretKeysRevokeConfig(p, TRUE)
    \/ secretKeysRevokeSetClient(p)
    \/ \E k \in {"api_key", "app_key"}, o \in DeleteOutcomes :
          secretKeysRevokeDelete(p, k, o)

\* pathConfigWrite and pathConfigDelete
ConfigConc(p) ==
    \/ \E a \in AdminAPIKeys, b \in AdminAppKeys : pathConfigWritePut(p, a, b, TRUE)
    \/ pathConfigWriteClient(p)
    \/ pathConfigDeleteStorage(p, TRUE)
    \/ pathConfigDeleteClient(p)

\* pathRoleWrite of a valid role
RoleWriteValid(p) ==
    \E n \in RoleNames, r \in {x \in RoleExamples : ValidateRole(x) = ""} :
       pathRoleWrite(p, n, r.KeyType, r.Scopes, r.TTL, r.MaxTTL, TRUE)

\* issuance and revocation on one goroutine while the other goroutines
\* write and delete the configuration
NextConc ==
    \/ KeysConc(Main)
    \/ RevokeConc(Main)
    \/ RoleWriteValid(Main)
    \/ RequestEnd(Main)
    \/ \E p \in Procs \ {Main} : ConfigConc(p) \/ RequestEnd(p)

SpecConc == Init /\ [][NextConc]_vars

\* issuances on every goroutine at once, while roles are rewritten
NextIssue ==
    \/ \E p \in Procs : KeysConc(p) \/ RequestEnd(p)
    \/ RoleWriteValid(Main)
    \/ \E b \in AdminAppKeys : pathConfigWritePut(Main, ConcAdminAPIKey, b, TRUE)
    \/ pathConfigWriteClient(Main)

SpecIssue == Init /\ [][NextIssue]_vars

(* --------------------------- revoke retries ---------------------------- *)
\* One goroutine; the configuration is written and never deleted, the host
\* issues one lease at a time and revokes it.
NextRetry ==
    \/ \E b \in AdminAppKeys : pathConfigWritePut(Main, ConcAdminAPIKey, b, TRUE)
    \/ pathConfigWriteClient(Main)
    \/ RoleWriteValid(Main)
    \/ KeysConc(Main)
    \/ RevokeConc(Main)
    \/ RequestEnd(Main)
    \/ Factory

\* the host invokes revoke for a lease it holds
RevokeBegins == \E l \in leases : secretKeysRevokeClient(Main, l)

\* a handler that has begun runs on to its return, and the return is
\* handed to the host
HandlerGoesOn ==
    \/ pathConfigWriteClient(Main)
    \/ \E now \in Times : pathKeysReadClient(Main, now)
    \/ pathKeysReadConfig(Main, TRUE)
    \/ \E now \in Times : pathKeysReadSetClient(Main, now)
    \/ \E o \in CreateOutcomes : pathKeysReadAPI(Main, o)
    \/ \E o \in CreateOutcomes : pathKeysReadApp(Main, o)
    \/ secretKeysRevokeConfig(Main, TRUE)
    \/ secretKeysRevokeSetClient(Main)
    \/ \E k \in {"api_key", "app_key"}, o \in DeleteOutcomes :
          secretKeysRevokeDelete(Main, k, o)
    \/ RequestEnd(Main)

\* the provider deletes a key that still exists
DeleteOfExistingKey ==
    \E k \in {"api_key", "app_key"} :
        /\ pc[Main] = RevokeLabel(k)
        /\ [kind |-> k, value |-> Val(frame[Main].secret).secret.InternalData[k]]
              \in provider
        /\ secretKeysRevokeDelete(Main, k, "deleted")

\* the host keeps re-invoking revoke while it holds the lease, handlers run
\* to completion, and deletions of still-existing keys eventually succeed
FairRetry ==
    /\ SF_vars(RevokeBegins)
    /\ WF_vars(HandlerGoesOn)
    /\ SF_vars(DeleteOfExistingKey)

SpecRetry == Init /\ [][NextRetry]_vars /\ FairRetry

(* ------------------------------- claims -------------------------------- *)
\* the handler `o` run by goroutine p has returned
Done(p, o) == pc[p] = "done" /\ frame[p].op = o
\* goroutine p is inside pathKeysRead
Issuing(p) == frame[p].op = "keys_read" /\ pc[p] # "done"
\* the provider calls of goroutine p's handler, as operation and argument
CallsMade(p) == [i \in 1..Len(calls[p]) |-> [op |-> calls[p][i].op, arg |-> calls[p][i].arg]]
CallOps(p) == {calls[p][i].op : i \in 1..Len(calls[p])}
IsPrefix(s, t) == Len(s) <= Len(t) /\ \A i \in 1..Len(s) : s[i] = t[i]
NotConfiguredMsg == "datadog backend not configured"

\* C1: whenever no issuance is running, every key that exists at the
\* provider was created by an issuance whose lease the host holds, so that a
\* revoke of that lease can destroy it.
C1_EveryMintedKeyIsLeased ==
    (\A p \in Procs : ~Issuing(p))
        => \A k \in provider : \E l \in leases : k \in l.created

\* C2: when revoke returns success for the lease of a successful issue, its
\* delete calls hit exactly the keys that issue created and none of them is
\* left at the provider.
C2_IssueRevokeRoundTrip ==
    \A p \in Procs :
        (Done(p, "revoke") /\ result[p] = RetNil)
            => LET lease == Val(frame[p].secret)
                   deleted == {[kind |-> IF calls[p][i].op = "deleteAPIKey"
                                         THEN "api_key" ELSE "app_key",
                                value |-> calls[p][i].arg] : i \in 1..Len(calls[p])}
               IN /\ deleted = lease.created
                  /\ lease.created \cap provider = {}

\* the delete operations a secret's internal data asks for: the operation of
\* each kind its key_type names, on the value recorded for that kind
ExpectedDeletes(data) ==
    (IF data.key_type \in {"api_key", "both"} /\ data.api_key # ""
     THEN <<[op |-> "deleteAPIKey", arg |-> data.api_key]>> ELSE <<>>)
    \o (IF data.key_type \in {"app_key", "both"} /\ data.app_key # ""
        THEN <<[op |-> "deleteAppKey", arg |-> data.app_key]>> ELSE <<>>)

\* C3: the provider calls of a revoke are the delete operations matching the
\* key_type recorded in the secret, on the recorded values, in order (all of
\* them when revoke succeeds), whatever the role store holds by then.
C3_RevokeFollowsMetadata ==
    \A p \in Procs :
        frame[p].op = "revoke"
            => LET expected == ExpectedDeletes(Val(frame[p].secret).secret.InternalData)
               IN /\ IsPrefix(CallsMade(p), expected)
                  /\ (pc[p] = "done" /\ result[p] = RetNil => CallsMade(p) = expected)

\* C3 witness: a revoke of a "both" secret has made both deletions and
\* succeeded while the role is gone from the store
C3_Witness ==
    \E p \in Procs :
        /\ Done(p, "revoke") /\ result[p] = RetNil
        /\ Val(frame[p].secret).secret.InternalData.key_type = "both"
        /\ Len(calls[p]) = 2
        /\ \A n \in RoleNames : getRole(n) = Nil

\* C4: an issuance for a "both" role calls createAPIKey first and
\* createAppKey only after it, and when both succeed the response carries
\* the two values the calls returned.
C4_BothOrderAndValues ==
    \A p \in Procs :
        (frame[p].op = "keys_read" /\ frame[p].role # Nil
         /\ Val(frame[p].role).KeyType = "both")
            => /\ Len(calls[p]) <= 2
               /\ Len(calls[p]) >= 1 => calls[p][1].op = "createAPIKey"
               /\ Len(calls[p]) = 2 => calls[p][1].ok /\ calls[p][2].op = "createAppKey"
               /\ (pc[p] = "done" /\ Len(calls[p]) = 2 /\ calls[p][2].ok)
                    => /\ result[p].kind = "data"
                       /\ Val(result[p].data) = [api_key |-> calls[p][1].value,
                                                 app_key |-> calls[p][2].value]
               /\ (pc[p] = "done" /\ result[p].kind = "data") => Len(calls[p]) = 2

\* C4 witness: a "both" issuance returned the values of its two calls
C4_Witness ==
    \E p \in Procs :
        /\ Done(p, "keys_read") /\ result[p].kind = "data"
        /\ Val(frame[p].role).KeyType = "both"
        /\ Len(calls[p]) = 2
        /\ Val(result[p].data).api_key # "" /\ Val(result[p].data).app_key # ""

\* C5: an issuance for an "api_key" role never calls createAppKey and an
\* issuance for an "app_key" role never calls createAPIKey.
C5_SingleKindIssuance ==
    \A p \in Procs :
        (frame[p].op = "keys_read" /\ frame[p].role # Nil)
            => /\ Val(frame[p].role).KeyType = "api_key" => "createAppKey" \notin CallOps(p)
               /\ Val(frame[p].role).KeyType = "app_key" => "createAPIKey" \notin CallOps(p)

\* C5 witness: an "app_key" issuance has made its provider call and returned
C5_Witness ==
    \E p \in Procs :
        /\ Done(p, "keys_read") /\ result[p].kind = "data"
        /\ Val(frame[p].role).KeyType = "app_key"
        /\ CallOps(p) = {"createAppKey"}

C7_StoredRolesValid ==
    \A n \in RoleNames :
        getRole(n) # Nil
            => /\ Val(getRole(n)).TTL <= Val(getRole(n)).MaxTTL
               /\ Val(getRole(n)).KeyType \in {"api_key", "app_key", "both"}

\* C7 witness: a role is stored and a write has just been turned down
C7_Witness ==
    \E p \in Procs, n \in RoleNames :
        /\ Done(p, "role_write") /\ result[p].kind = "error_response"
        /\ getRole(n) # Nil
        /\ Val(getRole(n)).TTL = Val(getRole(n)).MaxTTL

ValidationMsgs ==
    {"invalid key_type; must be 'api_key', 'app_key', or 'both'",
     "ttl cannot be greater than max_ttl"}

\* C8: a role write that returns a validation failure leaves the role store,
\* the configuration, the cached client, the provider and the leases as they
\* were.
C8_RejectedRoleWriteIsPure ==
    [][\A p \in Procs :
          (/\ pc[p] = "idle" /\ pc'[p] = "done"
           /\ frame'[p].op = "role_write"
           /\ result'[p].kind = "error_response"
           /\ result'[p].msg \in ValidationMsgs)
              => UNCHANGED <<storage, client, provider, nextId, leases>>]_vars

\* C8 witness: a write was turned down for its ttl while a role, a
\* configuration, a client and a provider key exist
C8_Witness ==
    \E p \in Procs, n \in RoleNames :
        /\ Done(p, "role_write")
        /\ result[p] = RetErrorResponse("ttl cannot be greater than max_ttl")
        /\ getRole(n) # Nil
        /\ storage["config"] # Nil /\ client # Nil /\ provider # {}

\* C9: right after a configuration write has returned, a configuration read
\* returns the written pair; right after a configuration delete has
\* returned, a read returns nothing.
C9_ConfigReadAfterWrite ==
    \A p \in Procs :
        /\ (Done(p, "config_write") /\ result[p] = RetNil)
              => ConfigReadResponse(TRUE) =
                    RetData([api_key |-> Val(frame[p].config).APIKey,
                             app_key |-> Val(frame[p].config).AppKey])
        /\ (Done(p, "config_delete") /\ result[p] = RetNil)
              => ConfigReadResponse(TRUE) = RetNil

\* C9 witness: a pair has been written over a configuration that a client
\* had already been built from
C9_Witness ==
    \E p \in Procs :
        /\ Done(p, "config_write") /\ result[p] = RetNil
        /\ Val(frame[p].config) = [APIKey |-> "k3", AppKey |-> "k2"]
        /\ provider # {}

\* C10: the secret a successful issuance returns has the ttl and max_ttl of
\* the stored role, is renewable and records the role's key_type; role
\* writes and deletes leave the leases the host holds as they are.
C10_LeaseMirrorsRole ==
    [][\A p \in Procs :
          /\ (/\ pc[p] # "done" /\ pc'[p] = "done"
              /\ frame'[p].op = "keys_read"
              /\ result'[p].secret # Nil)
                => LET s == Val(result'[p].secret)
                       role == Val(getRole(frame'[p].name))
                   IN /\ getRole(frame'[p].name) # Nil
                      /\ s.TTL = role.TTL * Second
                      /\ s.MaxTTL = role.MaxTTL * Second
                      /\ s.Renewable = TRUE
                      /\ s.InternalData.key_type = role.KeyType
                      /\ \E l \in leases' : l.secret = s
          /\ (pc[p] = "idle" /\ frame'[p].op \in {"role_write", "role_delete"})
                => leases' = leases]_vars

\* C10 witness: the host still holds the lease of the test role (3600 s,
\* 86400 s, renewable) after the role has been deleted
C10_Witness ==
    \E p \in Procs, l \in leases :
        /\ Done(p, "role_delete") /\ result[p] = RetNil
        /\ getRole(frame[p].name) = Nil
        /\ l.secret.TTL = 3600 * Second /\ l.secret.MaxTTL = 86400 * Second
        /\ l.secret.Renewable
        /\ l.secret.InternalData.key_type = "both"

\* C11: a configuration change never takes effect mid-flight: all the
\* provider calls of one issuance or one revocation go through the same
\* client (the same admin credentials), also when a configuration write
\* completes between two of them.
C11_OneClientPerRequest ==
    \A p \in Procs :
        \A i, j \in 1..Len(calls[p]) : calls[p][i].via = calls[p][j].via

\* C12: a request that has passed its client-present check never makes a
\* provider call through an absent client: no handler ends in the panic of a
\* method call on a nil b.client.
C12_NoCallThroughNilClient ==
    \A p \in Procs : result[p] # RetErr("panic")

\* the create call of goroutine p's issuance that failed, if any
FailedCreate(p) == \E i \in 1..Len(calls[p]) : ~calls[p][i].ok

\* C13: issuance is fail-fast without compensation: a failed create call is
\* the last provider call of its issuance (after a failed createAPIKey no
\* createAppKey follows, after a failed createAppKey no delete follows), the
\* issuance returns the error, and neither credential values nor lease
\* metadata reach the caller: the host holds no lease for what was created.
C13_IssuanceFailsFast ==
    \A p \in Procs :
        (Done(p, "keys_read") /\ FailedCreate(p))
            => /\ ~calls[p][Len(calls[p])].ok
               /\ \A i \in 1..(Len(calls[p]) - 1) : calls[p][i].ok
               /\ CallOps(p) \subseteq {"createAPIKey", "createAppKey"}
               /\ result[p].kind = "error"
               /\ result[p].data = Nil /\ result[p].secret = Nil
               /\ \A l \in leases : l.created \cap frame[p].created = {}

\* createAppKey failed after createAPIKey had returned a key under "both"
C13_Witness ==
    \E p \in Procs :
        /\ Done(p, "keys_read")
        /\ Len(calls[p]) = 2
        /\ calls[p][1].op = "createAPIKey" /\ calls[p][1].ok /\ calls[p][1].value # ""
        /\ calls[p][2].op = "createAppKey" /\ ~calls[p][2].ok
        /\ [kind |-> "api_key", value |-> calls[p][1].value] \in provider

\* C14: revocation halts on the first failure: a failed delete call is the
\* last provider call of its revoke (after a failed deleteAPIKey no
\* deleteAppKey follows) and the revoke returns an error and the host keeps
\* the lease; a revoke returns success only when every deletion its secret
\* asks for was called and succeeded.
C14_RevokeHaltsOnFailure ==
    \A p \in Procs :
        Done(p, "revoke")
            => LET lease == Val(frame[p].secret)
                   failed == {i \in 1..Len(calls[p]) : ~calls[p][i].ok}
               IN /\ failed # {}
                        => /\ failed = {Len(calls[p])}
                           /\ result[p].kind = "error"
                           /\ lease \in leases
                  /\ result[p] = RetNil
                        => /\ failed = {}
                           /\ Len(calls[p]) = Len(ExpectedDeletes(lease.secret.InternalData))

\* deleteAPIKey of a "both" secret failed: the application key was not touched
C14_Witness ==
    \E p \in Procs :
        /\ Done(p, "revoke")
        /\ Val(frame[p].secret).secret.InternalData.key_type = "both"
        /\ Val(frame[p].secret).secret.InternalData.app_key # ""
        /\ Len(calls[p]) = 1
        /\ calls[p][1].op = "deleteAPIKey" /\ ~calls[p][1].ok
        /\ result[p].kind = "error"

\* a revoke has returned the error of a failed delete call
RevokeFailedOnDelete ==
    /\ Done(Main, "revoke")
    /\ calls[Main] # <<>>
    /\ ~calls[Main][Len(calls[Main])].ok

\* a revoke has returned success to the host
RevokeSucceeded == Done(Main, "revoke") /\ result[Main] = RetNil

\* C15: revocation is safe to retry: after a revoke failed on a delete call,
\* with the host re-invoking revoke for the lease and deletions of still
\* existing keys eventually succeeding, a revoke eventually returns success;
\* deleting an already-deleted key does not make the retry fail.
C15_RetryEventuallyRevokes == RevokeFailedOnDelete ~> RevokeSucceeded

\* no configuration is stored and no configuration write or delete is running
NoConfigPresent ==
    /\ storage["config"] = Nil
    /\ \A q \in Procs : frame[q].op \notin {"config_write", "config_delete"}

\* C16: revocation with no configuration present is a hard error: a revoke
\* that has not read a configuration itself makes no delete call in a step
\* taken while no configuration is present, so it cannot report a success.
C16_NoDeleteWithoutConfig ==
    [][\A p \in Procs :
          (/\ frame[p].op = "revoke"
           /\ frame[p].config = Nil
           /\ NoConfigPresent)
              => Len(calls'[p]) <= Len(calls[p])]_vars

\* the names pathKeysRead generates for a role
GeneratedNames(roleName) == {"vault-" \o roleName \o "-" \o ToString(t) : t \in Times}

\* C17: the key name passed to the create calls is the caller's name when
\* one is given, and otherwise a name generated from the role name and the
\* current time.
C17_KeyNameSuppliedOrGenerated ==
    \A p \in Procs :
        frame[p].op = "keys_read"
            => \A i \in 1..Len(calls[p]) :
                  IF frame[p].rawName # Nil /\ frame[p].rawName # Some("")
                  THEN calls[p][i].arg = Val(frame[p].rawName)
                  ELSE calls[p][i].arg \in GeneratedNames(frame[p].name)

\* the value goroutine p's own call of create operation o returned ("" when
\* it made no such call)
OwnValue(p, o) ==
    IF \E i \in 1..Len(calls[p]) : calls[p][i].op = o
    THEN calls[p][CHOOSE i \in 1..Len(calls[p]) : calls[p][i].op = o].value
    ELSE ""

\* C18: concurrent issuances are independent: each finished issuance returns
\* exactly the values its own create calls returned, with the key_type and
\* ttl of the role snapshot it read, and none of its values was returned to a
\* call of another goroutine.
C18_ConcurrentIssuancesIndependent ==
    \A p \in Procs :
        (Done(p, "keys_read") /\ result[p].secret # Nil)
            => LET role == Val(frame[p].role)
                   secret == Val(result[p].secret)
                   api == OwnValue(p, "createAPIKey")
                   app == OwnValue(p, "createAppKey")
               IN /\ Val(result[p].data) =
                        [k \in KeyKinds(role.KeyType) |->
                            IF k = "api_key" THEN api ELSE app]
                  /\ secret.InternalData =
                        [api_key |-> api, app_key |-> app, key_type |-> role.KeyType]
                  /\ secret.TTL = role.TTL * Second
                  /\ \A q \in Procs \ {p} : \A i \in 1..Len(calls[q]) :
                        calls[q][i].value # ""
                            => calls[q][i].value \notin {api, app}

\* two issuances that ran at the same time have both returned keys, each
\* for a different role snapshot, after the stored role was rewritten
C18_Witness ==
    \E p, q \in Procs :
        /\ p # q
        /\ Done(p, "keys_read") /\ result[p].secret # Nil
        /\ Done(q, "keys_read") /\ result[q].secret # Nil
        /\ frame[p].role # frame[q].role
        /\ Some(Val(frame[p].role)) # getRole(frame[p].name)
        /\ \E i \in 1..Len(calls[p]) : calls[p][i].value # ""
        /\ \E i \in 1..Len(calls[q]) : calls[q][i].value # ""

CreateOps == {"createAPIKey", "createAppKey"}
DeleteOps == {"deleteAPIKey", "deleteAppKey"}

\* C19: credentials are created only by issue and deleted only by revoke:
\* a step that adds a key at the provider is a create call of an issuance
\* and the key's value is new, a step that removes one is a delete call of
\* a revoke; an issuance makes only create calls, a revoke only delete
\* calls, and every other request (configuration and role operations,
\* renewal) makes no provider call at all.
C19_OnlyIssueCreatesOnlyRevokeDeletes ==
    [][/\ provider' \ provider # {}
            => /\ \E p \in Procs :
                     /\ frame'[p].op = "keys_read"
                     /\ Len(calls'[p]) = Len(calls[p]) + 1
               /\ \A k \in provider' \ provider : k.value = ToString(nextId)
               /\ nextId' = nextId + 1
       /\ provider \ provider' # {}
            => \E p \in Procs :
                  /\ frame'[p].op = "revoke"
                  /\ Len(calls'[p]) = Len(calls[p]) + 1
       /\ \A p \in Procs : \A i \in 1..Len(calls'[p]) :
            /\ frame'[p].op \in {"keys_read", "revoke"}
            /\ frame'[p].op = "keys_read" => calls'[p][i].op \in CreateOps
            /\ frame'[p].op = "revoke" => calls'[p][i].op \in DeleteOps
      ]_vars

\* a renewal of a lease whose keys exist has returned: nothing was called
C19_Witness ==
    \E p \in Procs :
        /\ Done(p, "renew")
        /\ calls[p] = <<>>
        /\ Val(frame[p].secret) \in leases
        /\ Val(frame[p].secret).created # {}
        /\ Val(frame[p].secret).created \subseteq provider

\* C20: every provider operation returns an error for any non-2xx status
\* of the response, 3xx included, and for any transport failure.
C20_Non2xxIsAnError ==
    wire.op \in ClientOps
        => ((wire.response = Nil \/ Val(wire.response) \notin 200..299)
               => wire.failed)

\* no configuration write or delete is in progress
NoConfigRequestRunning ==
    \A q \in Procs : frame[q].op \notin {"config_write", "config_delete"}

\* C21: cache coherence of the provider client: whenever no configuration
\* write or delete is in progress, a cached client is present only if a
\* configuration is stored, and its admin credentials are those of the
\* stored configuration.
C21_ClientMatchesStoredConfig ==
    (NoConfigRequestRunning /\ client # Nil)
        => /\ storage["config"] # Nil
           /\ LET config == DecodeConfig(Val(storage["config"]))
              IN Val(client) = newDatadogClient(config.APIKey, config.AppKey)

====
